---- MODULE Spec2Model ----
(***************************************************************************)
(* The scheduled multi-platform publishing pipeline of the marketing      *)
(* agency showcase: the generated_posts / social_media_accounts /         *)
(* ai_agent_config / posting_logs tables, publishPost with its recursive  *)
(* retry, the publishDuePosts sweeps that call it, the rows the daily      *)
(* generation job leaves, and the schedulePost and deletePost requests.   *)
(*                                                                         *)
(* Node runs the handlers on one thread and interleaves them at their     *)
(* awaits; every action below is one stretch of a handler between two     *)
(* awaits that touches shared state (a table or a platform).              *)
(*                                                                         *)
(* Time is counted in units of five minutes; 0 stands for a NULL column.  *)
(* In Spec the clock stands at StartTime: a post is made due, or put into *)
(* the future, by the time schedulePost gives it.                         *)
(***************************************************************************)
EXTENDS Integers, Sequences, FiniteSets, Bags, TLC

\* ------------------------------------------------------------------ bounds
MaxTime == 2         \* timestamps range over 1..MaxTime
MaxEdits == 1        \* schedulePost and deletePost requests in a run
MaxSlack == 6        \* texts are up to MaxSlack characters off a length limit

Users == {1, 2}
DraftIds == {1, 2}   \* the ids of generated_posts
Triggers == {1, 2}   \* two runs of publishDuePosts: the one at startup and a
                     \* timer tick, or two ticks; 2 is also the direct caller
Times == 1..MaxTime
CallIds == Triggers \X DraftIds

\* ------------------------------------------------------- program constants
\* retryCount < 2: the last attempt is the one made with retryCount = 2
MaxRetryCount == 2
MillisPerSecond == 1000
\* scheduledAt: now + 5 * 60 * 1000 ms, one unit of the clock
GenerationOffset == 1
\* caption.length > 2200
InstagramCaptionLimit == 2200
\* caption.substring(0, 2197)
InstagramCaptionKept == 2197

\* the time Spec runs at: the last timestamp but one, so that a later one exists
StartTime == MaxTime - 1

Platforms == {"linkedin", "facebook", "twitter", "instagram"}

VARIABLES
    drafts,         \* generated_posts: id -> row, NoDraft where there is no row
    accounts,       \* social_media_accounts: id -> row, NoAccount where none
    agents,         \* ai_agent_config: id -> row, NoAgent where none
    logs,           \* posting_logs, a bag of rows
    platformPosts,  \* the posts the platforms have published
    now,            \* the clock
    trig,           \* the triggers: a sweep each, or a direct call of publishPost
    calls,          \* publishPost invocations, by trigger and post id
    lastWriter,     \* per draft: the call whose UPDATE was the row's last write
    edits           \* schedulePost and deletePost requests so far

vars == <<drafts, accounts, agents, logs, platformPosts, now, trig, calls,
          lastWriter, edits>>

\* --------------------------------------------------------------- the rows
NoDraft == [userId |-> 0, platform |-> "none", agentId |-> 0, hasMedia |-> FALSE,
            status |-> "none", scheduledAt |-> 0, publishedAt |-> 0,
            externalPostId |-> 0]

NoAccount == [userId |-> 0, platform |-> "none", isActive |-> FALSE]

NoAgent == [userId |-> 0, isActive |-> FALSE, platforms |-> <<>>,
            selectedAccounts |-> [p \in Platforms |-> 0]]

\* what an adapter gives back: raised, or the normalized result; 0 stands for
\* the empty id and the empty url
NoResult == [raised |-> FALSE, success |-> FALSE, id |-> 0, url |-> 0,
             message |-> "none"]

\* an adapter call: whether it was given a token, an account or page id and
\* an image, what the platform answered to its requests, and its result
NoAdapterCall == [token |-> FALSE, target |-> FALSE, image |-> FALSE,
                  responses |-> <<>>, result |-> NoResult]

\* the text of a post as the adapters get it; a string is the sequence of
\* its characters
NoRequest == [title |-> <<>>, content |-> <<>>, hashtags |-> <<>>]

\* a request and the text an adapter made of it
NoFormatCall == [request |-> NoRequest, text |-> <<>>]

\* a call of isTokenExpired: its arguments, the clock it read, its answer
NoExpiryCheck == [expiresIn |-> 0, issuedAt |-> 0, clock |-> 0, asked |-> FALSE,
                  expired |-> FALSE]

NoCall == [userId |-> 0, retryCount |-> 0, pc |-> "none", platform |-> "none",
           hasMedia |-> FALSE, at |-> 0, account |-> 0, extId |-> 0,
           err |-> "none", tries |-> 0, stoppedAt |-> "none",
           adapter |-> NoAdapterCall, format |-> NoFormatCall, refreshes |-> 0,
           expiry |-> NoExpiryCheck]

\* a trigger: a run of publishDuePosts or of executeDailyPostingJob.  For the
\* job: the agent in hand, its run time, the platforms it has yet to do, the
\* post just inserted, and what the run has generated and failed to generate
IdleTrigger == [kind |-> "idle", pc |-> "idle", due |-> {}, todo |-> {},
                agent |-> 0, at |-> 0, platforms |-> <<>>, post |-> 0,
                made |-> {}, failed |-> {}, outcomes |-> <<>>,
                userId |-> 0, account |-> 0, token |-> 0, storedToken |-> 0,
                hadRefreshToken |-> FALSE, refreshes |-> 0, refreshed |-> "none",
                sent |-> FALSE]

\* a caller of the exported publishPost other than a sweep
DirectCaller == [IdleTrigger EXCEPT !.kind = "direct", !.pc = "await"]

NoWriter == <<0, 0>>

\* ----------------------------------------------------- account resolution
\* variant: the selected account is taken whatever its state
SelectedWhateverState(accts, agts, post) ==
    IF post.agentId # 0 /\ post.agentId \in DOMAIN agts
       /\ agts[post.agentId] # NoAgent
    THEN LET sel == agts[post.agentId].selectedAccounts[post.platform]
         IN  IF sel # 0 /\ sel \in DOMAIN accts /\ accts[sel] # NoAccount
             THEN {sel} ELSE {}
    ELSE {}

\* step 1: the account the draft's agent selected for the platform, if active
SelectedByAgent(accts, agts, post) ==
    IF post.agentId # 0 /\ post.agentId \in DOMAIN agts
       /\ agts[post.agentId] # NoAgent
    THEN LET sel == agts[post.agentId].selectedAccounts[post.platform]
         IN  IF sel # 0 /\ sel \in DOMAIN accts /\ accts[sel] # NoAccount
                /\ accts[sel].isActive
             THEN {sel} ELSE {}
    ELSE {}

\* step 2: the active accounts of the draft's user and platform
FallbackAccounts(accts, post) ==
    {a \in DOMAIN accts : /\ accts[a] # NoAccount
                          /\ accts[a].userId = post.userId
                          /\ accts[a].platform = post.platform
                          /\ accts[a].isActive}

\* the accounts findSelectedAccount may return; {0} stands for null.  The
\* fallback query has LIMIT 1 and no ORDER BY: any matching row may come back.
findSelectedAccount(accts, agts, post) ==
    IF SelectedByAgent(accts, agts, post) # {}
    THEN SelectedByAgent(accts, agts, post)
    ELSE IF FallbackAccounts(accts, post) # {}
         THEN FallbackAccounts(accts, post)
         ELSE {0}

\* ------------------------------------------------------------ publishPost
PostIdOf(c) == c[2]

\* variant: the owner is not compared
OwnershipUnchecked(row, userId) == row # NoDraft

OwnershipOk(row, userId) == row # NoDraft /\ row.userId = userId

\* variant: one retry too many
CanRetryOnceMore(retryCount) == retryCount <= MaxRetryCount

CanRetry(retryCount) == retryCount < MaxRetryCount

\* variant: the catch block gives up at the first failure
CatchGivingUp(call, error) ==
    [call EXCEPT !.err = error, !.account = 0, !.at = 0, !.pc = "updateFailed"]

\* variant: an exception of the adapter is not retried
CatchRaiseFinal(call, error) ==
    [call EXCEPT !.err = error, !.account = 0, !.at = 0,
                 !.pc = IF call.retryCount < MaxRetryCount /\ error # "adapter_raise"
                        THEN "sleep" ELSE "updateFailed"]

\* the catch block: retry after the delay, or go on to the final failure
Catch(call, error) ==
    [call EXCEPT !.err = error, !.account = 0, !.at = 0,
                 !.pc = IF CanRetry(call.retryCount) THEN "sleep" ELSE "updateFailed"]

\* what is kept of a call once it has returned or thrown: who called, and for
\* a call that failed or threw, how far its retries went
Ended(call, pc) ==
    IF pc = "done"
    THEN [NoCall EXCEPT !.pc = pc, !.userId = call.userId]
    ELSE [NoCall EXCEPT !.pc = pc, !.userId = call.userId,
                        !.retryCount = call.retryCount, !.tries = call.tries]

\* the post as findSelectedAccount reads it
PostOf(row) == [userId |-> row.userId, platform |-> row.platform, agentId |-> row.agentId]

\* One invocation up to its adapter call: (after the delay, when this is the
\* recursive call) SELECT the post, check the owner -- a miss throws outside
\* the try --, take the time and resolve the account.  The account and agent
\* tables do not change while a call runs, so these reads are one step.
LoadedCall(c) ==
    /\ calls[c].pc \in {"load", "sleep"}
    /\ LET row == drafts[PostIdOf(c)]
           call == [calls[c] EXCEPT !.retryCount = IF calls[c].pc = "sleep" THEN @ + 1 ELSE @]
       IN  IF OwnershipOk(row, call.userId)
           THEN \E a \in findSelectedAccount(accounts, agents, PostOf(row)) :
                  calls' = [calls EXCEPT ![c] =
                     IF a = 0
                     THEN Catch([call EXCEPT !.platform = row.platform,
                                             !.hasMedia = row.hasMedia], "no_account")
                     ELSE [call EXCEPT !.pc = "dispatch", !.platform = row.platform,
                                       !.hasMedia = row.hasMedia, !.at = now,
                                       !.account = a, !.err = "none"]]
           ELSE calls' = [calls EXCEPT ![c] = Ended(call, "threw")]

\* variant: the draft is taken out of scheduled before the adapter is called
LoadPostClaiming(c) ==
    /\ LoadedCall(c)
    /\ IF OwnershipOk(drafts[PostIdOf(c)], calls[c].userId)
       THEN /\ drafts' = [drafts EXCEPT ![PostIdOf(c)].status = "published"]
            /\ lastWriter' = [lastWriter EXCEPT ![PostIdOf(c)] = c]
       ELSE UNCHANGED <<drafts, lastWriter>>
    /\ UNCHANGED <<accounts, agents, logs, platformPosts, now, trig, edits>>

LoadPost(c) ==
    /\ LoadedCall(c)
    /\ UNCHANGED <<drafts, accounts, agents, logs, platformPosts, now, trig,
                   lastWriter, edits>>

\* what one call of a platform adapter can end in.  postToLinkedIn catches
\* everything and returns success = false
LinkedInOutcomes == {"ok", "fail"}

\* postToFacebook and postImageToInstagram return success = false for a failed
\* request, and raise when the page id or the token is missing
MetaOutcomes == {"ok", "fail", "raise"}

AdapterOutcomes(platform) ==
    IF platform = "linkedin" THEN LinkedInOutcomes ELSE MetaOutcomes

\* the id the platform gives the post: a fresh one for every call that posts
ExternalId(c) == (c[1] - 1) * Cardinality(DraftIds) + c[2]

\* the switch on the platform and what follows the adapter call that ended
\* in out: the throw for success = false and the exception the adapter
\* raised are caught by the same catch
Dispatched(c, out) ==
    /\ calls[c].pc = "dispatch"
    /\ IF calls[c].platform \notin {"linkedin", "facebook", "instagram"}
       THEN /\ calls' = [calls EXCEPT ![c] = Catch(@, "unsupported")]
            /\ UNCHANGED platformPosts
       ELSE IF calls[c].platform = "instagram" /\ ~calls[c].hasMedia
       THEN /\ calls' = [calls EXCEPT ![c] = Catch(@, "no_image")]
            /\ UNCHANGED platformPosts
       ELSE IF out = "ok"
            THEN /\ platformPosts' = platformPosts \cup
                        {[id |-> ExternalId(c),
                          postId |-> PostIdOf(c), call |-> c]}
                 /\ calls' = [calls EXCEPT ![c] =
                        [@ EXCEPT !.tries = @ + 1, !.pc = "updatePublished",
                                  !.extId = ExternalId(c)]]
            ELSE /\ UNCHANGED platformPosts
                 /\ calls' = [calls EXCEPT ![c] =
                        Catch([@ EXCEPT !.tries = @ + 1],
                              IF out = "fail" THEN "adapter_fail" ELSE "adapter_raise")]

Dispatch(c) ==
    /\ \E out \in AdapterOutcomes(calls[c].platform) : Dispatched(c, out)
    /\ UNCHANGED <<drafts, accounts, agents, logs, now, trig, lastWriter, edits>>

\* variant: the platform's id is not stored
PublishedRowLosingId(row, at, extId) ==
    [row EXCEPT !.status = "published", !.publishedAt = at]

PublishedRow(row, at, extId) ==
    [row EXCEPT !.status = "published", !.publishedAt = at, !.externalPostId = extId]

\* variant: the log row is written together with the status
UpdatePublishedWithLog(c) ==
    /\ calls[c].pc = "updatePublished"
    /\ LET p == PostIdOf(c)
       IN  IF drafts[p] # NoDraft
           THEN /\ drafts' = [drafts EXCEPT ![p] =
                        [@ EXCEPT !.status = "published", !.publishedAt = calls[c].at,
                                  !.externalPostId = calls[c].extId]]
                /\ lastWriter' = [lastWriter EXCEPT ![p] = c]
           ELSE UNCHANGED <<drafts, lastWriter>>
    /\ logs' = logs (+) SetToBag({[userId |-> calls[c].userId, postId |-> PostIdOf(c),
                                   platform |-> calls[c].platform, status |-> "success",
                                   platformPostId |-> calls[c].extId,
                                   errorMessage |-> "published", call |-> c]})
    /\ calls' = [calls EXCEPT ![c].pc = "logSuccess"]
    /\ UNCHANGED <<accounts, agents, platformPosts, now, trig, edits>>

UpdatePublished(c) ==
    /\ calls[c].pc = "updatePublished"
    /\ LET p == PostIdOf(c)
       IN  IF drafts[p] # NoDraft
           THEN /\ drafts' = [drafts EXCEPT ![p] =
                        PublishedRow(@, calls[c].at, calls[c].extId)]
                /\ lastWriter' = [lastWriter EXCEPT ![p] = c]
           ELSE UNCHANGED <<drafts, lastWriter>>
    /\ calls' = [calls EXCEPT ![c].pc = "logSuccess"]
    /\ UNCHANGED <<accounts, agents, logs, platformPosts, now, trig, edits>>

SuccessLog(call, c) ==
    [userId |-> call.userId, postId |-> PostIdOf(c), platform |-> call.platform,
     status |-> "success", platformPostId |-> call.extId,
     errorMessage |-> "published", call |-> c]

LogSuccess(c) ==
    /\ calls[c].pc = "logSuccess"
    /\ logs' = logs (+) SetToBag({SuccessLog(calls[c], c)})
    /\ calls' = [calls EXCEPT ![c] = Ended(@, "done")]
    /\ UNCHANGED <<drafts, accounts, agents, platformPosts, now, trig, lastWriter,
                   edits>>

FailedRow(row) == [row EXCEPT !.status = "failed"]

UpdateFailed(c) ==
    /\ calls[c].pc = "updateFailed"
    /\ LET p == PostIdOf(c)
       IN  IF drafts[p] # NoDraft
           THEN /\ drafts' = [drafts EXCEPT ![p] = FailedRow(@)]
                /\ lastWriter' = [lastWriter EXCEPT ![p] = c]
           ELSE UNCHANGED <<drafts, lastWriter>>
    /\ calls' = [calls EXCEPT ![c].pc = "logFailed"]
    /\ UNCHANGED <<accounts, agents, logs, platformPosts, now, trig, edits>>

FailedLog(call, c) ==
    [userId |-> call.userId, postId |-> PostIdOf(c), platform |-> call.platform,
     status |-> "failed", platformPostId |-> 0, errorMessage |-> call.err,
     call |-> c]

\* variant: the final failure is not logged
LogFailedSilently(c) ==
    /\ calls[c].pc = "logFailed"
    /\ calls' = [calls EXCEPT ![c] = Ended(@, "failed")]
    /\ UNCHANGED <<drafts, accounts, agents, logs, platformPosts, now, trig,
                   lastWriter, edits>>

LogFailed(c) ==
    /\ calls[c].pc = "logFailed"
    /\ logs' = logs (+) SetToBag({FailedLog(calls[c], c)})
    /\ calls' = [calls EXCEPT ![c] = Ended(@, "failed")]
    /\ UNCHANGED <<drafts, accounts, agents, platformPosts, now, trig, lastWriter,
                   edits>>

\* a call that has returned (either result), or thrown
Returned(c) == calls[c].pc \in {"done", "failed"}
Threw(c) == calls[c].pc = "threw"
InFlight(c) == calls[c].pc \notin {"none", "done", "failed", "threw"}

NewCall(userId) == [NoCall EXCEPT !.userId = userId, !.pc = "load"]

CallsOf(t) == {c \in CallIds : c[1] = t /\ calls[c] # NoCall}

\* ---------------------------------------------------------- publishDuePosts
\* variant: lt for lte
findPostsBefore(rows, at) ==
    {p \in DOMAIN rows : /\ rows[p] # NoDraft
                         /\ rows[p].status = "scheduled"
                         /\ rows[p].scheduledAt # 0
                         /\ rows[p].scheduledAt < at}

\* WHERE status = 'scheduled' AND scheduledAt <= now (a NULL never compares)
findDuePosts(rows, at) ==
    {p \in DOMAIN rows : /\ rows[p] # NoDraft
                         /\ rows[p].status = "scheduled"
                         /\ rows[p].scheduledAt # 0
                         /\ rows[p].scheduledAt <= at}

StartSweep(t) ==
    /\ trig[t].kind = "idle"
    /\ LET due == {[id |-> p, userId |-> drafts[p].userId] : p \in findDuePosts(drafts, now)}
       IN  trig' = [trig EXCEPT ![t] =
                  [IdleTrigger EXCEPT !.kind = "sweep", !.pc = "loop",
                                      !.due = due, !.todo = due]]
    /\ UNCHANGED <<drafts, accounts, agents, logs, platformPosts, now, calls,
                   lastWriter, edits>>

\* variant: the call is not awaited
LoopNotAwaiting(t) == TRUE

\* for (const post of duePosts) { await publishPost(post.userId, post.id) }:
\* the next turn starts when the call of the turn before has returned
LoopMayGoOn(t) == \A c \in CallsOf(t) : Returned(c)

SweepDispatch(t) ==
    /\ trig[t].kind = "sweep" /\ trig[t].pc = "loop"
    /\ LoopMayGoOn(t)
    /\ \E d \in trig[t].todo :
          /\ trig' = [trig EXCEPT ![t].todo = @ \ {d}]
          /\ calls' = [calls EXCEPT ![<<t, d.id>>] = NewCall(d.userId)]
    /\ UNCHANGED <<drafts, accounts, agents, logs, platformPosts, now, lastWriter, edits>>

SweepFinish(t) ==
    /\ trig[t].kind = "sweep" /\ trig[t].pc = "loop"
    /\ trig[t].todo = {}
    /\ \A c \in CallsOf(t) : Returned(c)
    /\ trig' = [trig EXCEPT ![t].pc = "finished"]
    /\ UNCHANGED <<drafts, accounts, agents, logs, platformPosts, now, calls,
                   lastWriter, edits>>

\* publishPost threw: the catch around the loop ends the sweep
SweepAbort(t) ==
    /\ trig[t].kind = "sweep" /\ trig[t].pc = "loop"
    /\ \E c \in CallsOf(t) : Threw(c)
    /\ trig' = [trig EXCEPT ![t].pc = "aborted"]
    /\ UNCHANGED <<drafts, accounts, agents, logs, platformPosts, now, calls,
                   lastWriter, edits>>

\* ------------------------------------------------------- router operations
ScheduledRow(row, at) == [row EXCEPT !.status = "scheduled", !.scheduledAt = at]

SchedulePost(p, at) ==
    /\ edits < MaxEdits
    /\ edits' = edits + 1
    /\ drafts[p] # NoDraft
    /\ drafts' = [drafts EXCEPT ![p] = ScheduledRow(@, at)]
    /\ lastWriter' = [lastWriter EXCEPT ![p] = NoWriter]
    /\ UNCHANGED <<accounts, agents, logs, platformPosts, now, trig, calls>>

\* schedulePost takes any string for scheduledAt and makes a Date of it
\* unchecked.  A string that is no date gives an Invalid Date: the driver
\* refuses it and the UPDATE throws (MySQL), or binds it as NaN, which is
\* stored as NULL (SQLite).
UnparsedDateOutcomes == {"throws", "null"}

SchedulePostUnparsed(p) ==
    /\ edits < MaxEdits
    /\ edits' = edits + 1
    /\ drafts[p] # NoDraft
    /\ \E out \in UnparsedDateOutcomes :
          IF out = "null"
          THEN /\ drafts' = [drafts EXCEPT ![p] = ScheduledRow(@, 0)]
               /\ lastWriter' = [lastWriter EXCEPT ![p] = NoWriter]
          ELSE UNCHANGED <<drafts, lastWriter>>
    /\ UNCHANGED <<accounts, agents, logs, platformPosts, now, trig, calls>>

\* variant: the post's rows of posting_logs go with it
DeletePostWithLogs(u, p) ==
    /\ edits < MaxEdits
    /\ edits' = edits + 1
    /\ OwnershipOk(drafts[p], u)
    /\ drafts' = [drafts EXCEPT ![p] = NoDraft]
    /\ lastWriter' = [lastWriter EXCEPT ![p] = NoWriter]
    /\ logs' = [e \in {x \in BagToSet(logs) : x.postId # p} |-> logs[e]]
    /\ UNCHANGED <<accounts, agents, platformPosts, now, trig, calls>>

DeletePost(u, p) ==
    /\ edits < MaxEdits
    /\ edits' = edits + 1
    /\ OwnershipOk(drafts[p], u)
    /\ drafts' = [drafts EXCEPT ![p] = NoDraft]
    /\ lastWriter' = [lastWriter EXCEPT ![p] = NoWriter]
    /\ UNCHANGED <<accounts, agents, logs, platformPosts, now, trig, calls>>

\* linkedinRouter.postContent: the user publishes a post on a LinkedIn account
\* at once.  One adapter call; the row is written whatever its status and
\* its platform; every exception ends in a failed row of posting_logs.
DirectExternalId == Cardinality(CallIds) + 1 + edits

DirectLog(u, p, status, detail) ==
    [userId |-> u, postId |-> p, platform |-> "linkedin", status |-> status,
     platformPostId |-> 0, errorMessage |-> detail, call |-> NoWriter]

PostContent(u, a, p) ==
    /\ edits < MaxEdits
    /\ edits' = edits + 1
    /\ IF ~(accounts[a] # NoAccount /\ accounts[a].userId = u
             /\ accounts[a].platform = "linkedin")
       THEN /\ logs' = logs (+) SetToBag({DirectLog(u, p, "failed", "no_account")})
            /\ UNCHANGED <<drafts, platformPosts, lastWriter>>
       ELSE IF ~OwnershipOk(drafts[p], u)
       THEN /\ logs' = logs (+) SetToBag({DirectLog(u, p, "failed", "not_found")})
            /\ UNCHANGED <<drafts, platformPosts, lastWriter>>
       ELSE \E out \in LinkedInOutcomes :
              IF out = "ok"
              THEN /\ platformPosts' = platformPosts \cup
                          {[id |-> DirectExternalId, postId |-> p, call |-> NoWriter]}
                   /\ drafts' = [drafts EXCEPT ![p] = PublishedRow(@, now, DirectExternalId)]
                   /\ lastWriter' = [lastWriter EXCEPT ![p] = NoWriter]
                   /\ logs' = logs (+) SetToBag({DirectLog(u, p, "success", "posted")})
              ELSE /\ logs' = logs (+) SetToBag({DirectLog(u, p, "failed", "adapter_fail")})
                   /\ UNCHANGED <<drafts, platformPosts, lastWriter>>
    /\ UNCHANGED <<accounts, agents, now, trig, calls>>

\* metaRouter.handleCallback: the pages Meta returns are upserted as active
\* accounts, the user's other Facebook and Instagram accounts are deleted
MetaAccountsOf(accts, u) ==
    {a \in DOMAIN accts : /\ accts[a] # NoAccount /\ accts[a].userId = u
                          /\ accts[a].platform \in {"facebook", "instagram"}}

HandleCallback(u, returned) ==
    /\ edits < MaxEdits
    /\ edits' = edits + 1
    /\ returned \subseteq MetaAccountsOf(accounts, u)
    /\ accounts' = [a \in DOMAIN accounts |->
                      IF a \in returned THEN [accounts[a] EXCEPT !.isActive = TRUE]
                      ELSE IF a \in MetaAccountsOf(accounts, u) THEN NoAccount
                      ELSE accounts[a]]
    /\ UNCHANGED <<drafts, agents, logs, platformPosts, now, trig, calls, lastWriter>>

\* ---------------------------------------------------- executeDailyPostingJob
\* variant: the post is due at once
GeneratedRowDueNow(agent, platform, media, at) ==
    [NoDraft EXCEPT !.userId = agent.userId, !.platform = platform,
                    !.hasMedia = media, !.status = "scheduled",
                    !.scheduledAt = at]

\* scheduledAt: new Date(now.getTime() + 5 * 60 * 1000)
GeneratedRow(agent, platform, media, at) ==
    [NoDraft EXCEPT !.userId = agent.userId, !.platform = platform,
                    !.hasMedia = media, !.status = "scheduled",
                    !.scheduledAt = at + GenerationOffset]

GenerationLog(userId, platform, postId) ==
    [userId |-> userId, postId |-> postId, platform |-> platform,
     status |-> "success", platformPostId |-> 0, errorMessage |-> "generated",
     call |-> NoWriter]

\* SELECT ... FROM ai_agent_config WHERE isActive = true
findActiveAgents(agts) == {a \in DOMAIN agts : agts[a] # NoAgent /\ agts[a].isActive}

JobStart(t) ==
    /\ trig[t].kind = "idle"
    /\ trig' = [trig EXCEPT ![t] =
                  [IdleTrigger EXCEPT !.kind = "job", !.pc = "agents",
                                      !.due = findActiveAgents(agents),
                                      !.todo = findActiveAgents(agents)]]
    /\ UNCHANGED <<drafts, accounts, agents, logs, platformPosts, now, calls,
                   lastWriter, edits>>

\* processAgentPosting begins: now = new Date(), the platforms are parsed
JobAgent(t) ==
    /\ trig[t].kind = "job" /\ trig[t].pc = "agents"
    /\ \E a \in trig[t].todo :
          trig' = [trig EXCEPT ![t] =
                     [@ EXCEPT !.todo = @ \ {a}, !.agent = a, !.at = now,
                               !.platforms = agents[a].platforms,
                               !.pc = "platforms"]]
    /\ UNCHANGED <<drafts, accounts, agents, logs, platformPosts, now, calls,
                   lastWriter, edits>>

\* what generateSocialMediaContent and generateImage end in: a text with an
\* image, a text without one, or an exception
GenerationOutcomes == {"image", "text", "fail"}

\* the id an INSERT into generated_posts gets: one past the largest in use
NextPostId(rows) ==
    IF \A p \in DOMAIN rows : rows[p] = NoDraft THEN 1
    ELSE 1 + CHOOSE p \in DOMAIN rows :
                /\ rows[p] # NoDraft
                /\ \A q \in DOMAIN rows : rows[q] # NoDraft => q <= p

\* variant: the inner catch gives the agent up
AfterFailureNone(platforms) == <<>>

\* the inner catch only writes to the console: the loop goes on
AfterFailure(platforms) == Tail(platforms)

\* one turn of the platform loop up to the INSERT of the post
JobGenerate(t) ==
    /\ trig[t].kind = "job" /\ trig[t].pc = "platforms"
    /\ trig[t].platforms # <<>>
    /\ LET a == trig[t].agent
           pl == Head(trig[t].platforms)
           id == NextPostId(drafts)
       IN  \E out \in GenerationOutcomes :
              IF out = "fail"
              THEN /\ trig' = [trig EXCEPT ![t] =
                                 [@ EXCEPT !.platforms = AfterFailure(@),
                                           !.failed = @ \cup {<<a, pl>>}]]
                   /\ UNCHANGED <<drafts, lastWriter>>
              ELSE /\ id \in DraftIds
                   /\ drafts' = [drafts EXCEPT ![id] =
                                   GeneratedRow(agents[a], pl, out = "image", trig[t].at)]
                   /\ lastWriter' = [lastWriter EXCEPT ![id] = NoWriter]
                   /\ trig' = [trig EXCEPT ![t] =
                                 [@ EXCEPT !.pc = "log", !.post = id,
                                           !.made = @ \cup {[agent |-> a, platform |-> pl,
                                                             postId |-> id, at |-> trig[t].at]}]]
    /\ UNCHANGED <<accounts, agents, logs, platformPosts, now, calls, edits>>

\* the INSERT into posting_logs that follows the post
JobLog(t) ==
    /\ trig[t].kind = "job" /\ trig[t].pc = "log"
    /\ logs' = logs (+) SetToBag({GenerationLog(agents[trig[t].agent].userId,
                                                Head(trig[t].platforms), trig[t].post)})
    /\ trig' = [trig EXCEPT ![t] =
                  [@ EXCEPT !.pc = "platforms", !.platforms = Tail(@), !.post = 0]]
    /\ UNCHANGED <<drafts, accounts, agents, platformPosts, now, calls,
                   lastWriter, edits>>

\* the platforms are done: nextRunAt is written, processAgentPosting returns
JobAgentDone(t) ==
    /\ trig[t].kind = "job" /\ trig[t].pc = "platforms"
    /\ trig[t].platforms = <<>>
    /\ trig' = [trig EXCEPT ![t] = [@ EXCEPT !.pc = "agents", !.agent = 0, !.at = 0]]
    /\ UNCHANGED <<drafts, accounts, agents, logs, platformPosts, now, calls,
                   lastWriter, edits>>

JobFinish(t) ==
    /\ trig[t].kind = "job" /\ trig[t].pc = "agents"
    /\ trig[t].todo = {}
    /\ trig' = [trig EXCEPT ![t].pc = "finished"]
    /\ UNCHANGED <<drafts, accounts, agents, logs, platformPosts, now, calls,
                   lastWriter, edits>>

\* time passes
Tick ==
    /\ now < MaxTime
    /\ now' = now + 1
    /\ UNCHANGED <<drafts, accounts, agents, logs, platformPosts, trig, calls,
                   lastWriter, edits>>

\* ------------------------------------------------------------ the system
InitAccounts ==
    (1 :> [userId |-> 1, platform |-> "linkedin", isActive |-> TRUE]) @@
    (2 :> [userId |-> 2, platform |-> "linkedin", isActive |-> FALSE]) @@
    (3 :> [userId |-> 1, platform |-> "instagram", isActive |-> TRUE])

InitAgents ==
    (1 :> [userId |-> 1, isActive |-> TRUE, platforms |-> <<"instagram">>,
           selectedAccounts |-> [p \in Platforms |-> IF p = "linkedin" THEN 1 ELSE 0]]) @@
    (2 :> [userId |-> 2, isActive |-> FALSE, platforms |-> <<"linkedin">>,
           selectedAccounts |-> [p \in Platforms |-> IF p = "linkedin" THEN 2 ELSE 0]])

\* The posts a run starts with.  A post made by generateContent carries its
\* agent and is a draft; a post made by the daily job carries no agent, is
\* scheduled, and has the job's log entry.
RouterPost(u, platform, media, agent) ==
    [NoDraft EXCEPT !.userId = u, !.platform = platform, !.agentId = agent,
                    !.hasMedia = media, !.status = "draft"]

\* post 1 is user 1's LinkedIn draft; post 2 is the Instagram post the daily
\* job made for user 1, or a LinkedIn draft of user 2, whose agent selects an
\* inactive account and who has no other
InitTables ==
    { (1 :> ScheduledRow(RouterPost(1, "linkedin", FALSE, 1), StartTime)) @@ (2 :> second) :
        second \in { GeneratedRow(InitAgents[1], "instagram", TRUE, StartTime - GenerationOffset),
                     RouterPost(2, "linkedin", FALSE, 2) } }

GenerationLogsOf(rows) ==
    SetToBag({GenerationLog(rows[p].userId, rows[p].platform, p) :
                 p \in {q \in DOMAIN rows : rows[q] # NoDraft /\ rows[q].agentId = 0}})

Init ==
    /\ drafts \in InitTables
    /\ accounts = InitAccounts
    /\ agents = InitAgents
    /\ logs = GenerationLogsOf(drafts)
    /\ platformPosts = {}
    /\ now = StartTime
    /\ trig = [t \in Triggers |-> IdleTrigger]
    /\ calls = [c \in CallIds |-> NoCall]
    /\ lastWriter = [p \in DraftIds |-> NoWriter]
    /\ edits = 0

Next ==
    \/ \E c \in CallIds : LoadPost(c)
    \/ \E c \in CallIds : Dispatch(c)
    \/ \E c \in CallIds : UpdatePublished(c)
    \/ \E c \in CallIds : LogSuccess(c)
    \/ \E c \in CallIds : UpdateFailed(c)
    \/ \E c \in CallIds : LogFailed(c)
    \/ \E t \in Triggers : StartSweep(t)
    \/ \E t \in Triggers : SweepDispatch(t)
    \/ \E t \in Triggers : SweepFinish(t)
    \/ \E t \in Triggers : SweepAbort(t)
    \/ \E p \in DraftIds, at \in Times : SchedulePost(p, at)
    \/ \E u \in Users, p \in DraftIds : DeletePost(u, p)

Spec == Init /\ [][Next]_vars

\* ------------------------------------------------- publishPost on its own
\* publishPost(userId, postId) called with any user and any post id, over the
\* tables above and over one where post 2 does not exist
CallTables ==
    InitTables \cup {(1 :> ScheduledRow(RouterPost(1, "linkedin", FALSE, 1), StartTime))
                       @@ (2 :> NoDraft)}

InitCall ==
    /\ drafts \in CallTables
    /\ accounts = InitAccounts
    /\ agents = InitAgents
    /\ logs = GenerationLogsOf(drafts)
    /\ platformPosts = {}
    /\ now = StartTime
    /\ trig = [t \in Triggers |-> IF t = 2 THEN DirectCaller ELSE IdleTrigger]
    /\ \E u \in Users, p \in DraftIds :
          calls = [c \in CallIds |-> IF c = <<2, p>> THEN NewCall(u) ELSE NoCall]
    /\ lastWriter = [p \in DraftIds |-> NoWriter]
    /\ edits = 0

NextCall ==
    \/ \E c \in CallIds : LoadPost(c)
    \/ \E c \in CallIds : Dispatch(c)
    \/ \E c \in CallIds : UpdatePublished(c)
    \/ \E c \in CallIds : LogSuccess(c)
    \/ \E c \in CallIds : UpdateFailed(c)
    \/ \E c \in CallIds : LogFailed(c)
    \/ \E u \in Users, p \in DraftIds : DeletePost(u, p)

SpecCall == InitCall /\ [][NextCall]_vars

\* ------------------------------------- publishPost with writes that fail
\* The two writes of an outcome are two awaits.  The process may stop at any
\* await, and an INSERT into posting_logs may fail.

\* the process stops: every call in flight ends where it is
Crash ==
    /\ \E c \in CallIds : InFlight(c)
    /\ calls' = [c \in CallIds |->
                   IF InFlight(c)
                   THEN [calls[c] EXCEPT !.pc = "stopped", !.stoppedAt = calls[c].pc]
                   ELSE calls[c]]
    /\ UNCHANGED <<drafts, accounts, agents, logs, platformPosts, now, trig,
                   lastWriter, edits>>

\* the success INSERT throws: it is inside the try, the catch block takes it
LogSuccessFails(c) ==
    /\ calls[c].pc = "logSuccess"
    /\ calls' = [calls EXCEPT ![c] = Catch(@, "log_insert")]
    /\ UNCHANGED <<drafts, accounts, agents, logs, platformPosts, now, trig,
                   lastWriter, edits>>

\* the failed INSERT throws: it is in the catch block, publishPost raises
LogFailedFails(c) ==
    /\ calls[c].pc = "logFailed"
    /\ calls' = [calls EXCEPT ![c] = Ended(@, "raised")]
    /\ UNCHANGED <<drafts, accounts, agents, logs, platformPosts, now, trig,
                   lastWriter, edits>>

NextCrash ==
    \/ \E c \in CallIds : LoadPost(c)
    \/ \E c \in CallIds : Dispatch(c)
    \/ \E c \in CallIds : UpdatePublished(c)
    \/ \E c \in CallIds : LogSuccess(c)
    \/ \E c \in CallIds : UpdateFailed(c)
    \/ \E c \in CallIds : LogFailed(c)
    \/ \E c \in CallIds : LogSuccessFails(c)
    \/ \E c \in CallIds : LogFailedFails(c)
    \/ Crash

SpecCrash == InitCall /\ [][NextCrash]_vars

\* --------------------------------------------------- the daily job on its own
\* one run of executeDailyPostingJob over an empty generated_posts, while
\* time passes: an agent with two platforms and an inactive one, or two
\* active agents with a platform each
DailyAgent(u, active, platforms) ==
    [userId |-> u, isActive |-> active, platforms |-> platforms,
     selectedAccounts |-> [p \in Platforms |-> 0]]

DailyAgentTables ==
    { (1 :> DailyAgent(1, TRUE, <<"linkedin", "facebook">>)) @@
      (2 :> DailyAgent(2, FALSE, <<"linkedin">>)),
      (1 :> DailyAgent(1, TRUE, <<"instagram">>)) @@
      (2 :> DailyAgent(2, TRUE, <<"linkedin">>)) }

InitDaily ==
    /\ drafts = [p \in DraftIds |-> NoDraft]
    /\ accounts = InitAccounts
    /\ agents \in DailyAgentTables
    /\ logs = EmptyBag
    /\ platformPosts = {}
    /\ now = StartTime
    /\ trig = [t \in Triggers |-> IdleTrigger]
    /\ calls = [c \in CallIds |-> NoCall]
    /\ lastWriter = [p \in DraftIds |-> NoWriter]
    /\ edits = 0

NextDaily ==
    \/ JobStart(1)
    \/ JobAgent(1)
    \/ JobGenerate(1)
    \/ JobLog(1)
    \/ JobAgentDone(1)
    \/ JobFinish(1)
    \/ Tick

SpecDaily == InitDaily /\ [][NextDaily]_vars

\* ------------------------------------------------ all the operations together
\* the daily job, a sweep with its publishPost calls, the clock, and the
\* requests of the routers, over a table with one draft of user 1
InitOps ==
    /\ drafts = (1 :> RouterPost(1, "linkedin", FALSE, 1)) @@ (2 :> NoDraft)
    /\ accounts = InitAccounts
    /\ agents = InitAgents
    /\ logs = EmptyBag
    /\ platformPosts = {}
    /\ now = StartTime
    /\ trig = [t \in Triggers |-> IdleTrigger]
    /\ calls = [c \in CallIds |-> NoCall]
    /\ lastWriter = [p \in DraftIds |-> NoWriter]
    /\ edits = 0

NextOps ==
    \/ JobStart(1)
    \/ JobAgent(1)
    \/ JobGenerate(1)
    \/ JobLog(1)
    \/ JobAgentDone(1)
    \/ JobFinish(1)
    \/ Tick
    \/ StartSweep(2)
    \/ SweepDispatch(2)
    \/ SweepFinish(2)
    \/ SweepAbort(2)
    \/ \E c \in CallIds : LoadPost(c)
    \/ \E c \in CallIds : Dispatch(c)
    \/ \E c \in CallIds : UpdatePublished(c)
    \/ \E c \in CallIds : LogSuccess(c)
    \/ \E c \in CallIds : UpdateFailed(c)
    \/ \E c \in CallIds : LogFailed(c)
    \/ \E p \in DraftIds, at \in Times : SchedulePost(p, at)
    \/ \E p \in DraftIds : SchedulePostUnparsed(p)
    \/ \E u \in Users, p \in DraftIds : DeletePost(u, p)
    \/ \E u \in Users, a \in DOMAIN accounts, p \in DraftIds : PostContent(u, a, p)
    \/ \E u \in Users, returned \in SUBSET DOMAIN accounts : HandleCallback(u, returned)

SpecOps == InitOps /\ [][NextOps]_vars

\* ------------------------------------------ two publishPost calls side by side
\* two direct calls, each for an Instagram post of user 1 with an image; each
\* caller notes what the adapter did at every attempt of its call
RetryCalls == {c \in CallIds : c[1] = c[2]}

OutcomesOf(c) == trig[c[1]].outcomes

RecordedDispatch(c) ==
    /\ \E out \in AdapterOutcomes(calls[c].platform) :
          /\ Dispatched(c, out)
          /\ trig' = [trig EXCEPT ![c[1]].outcomes = Append(@, out)]
    /\ UNCHANGED <<drafts, accounts, agents, logs, now, lastWriter, edits>>

InitRetry ==
    /\ drafts = [p \in DraftIds |->
                   GeneratedRow(InitAgents[1], "instagram", TRUE, StartTime - GenerationOffset)]
    /\ accounts = InitAccounts
    /\ agents = InitAgents
    /\ logs = GenerationLogsOf(drafts)
    /\ platformPosts = {}
    /\ now = StartTime
    /\ trig = [t \in Triggers |-> DirectCaller]
    /\ calls = [c \in CallIds |-> IF c \in RetryCalls THEN NewCall(1) ELSE NoCall]
    /\ lastWriter = [p \in DraftIds |-> NoWriter]
    /\ edits = 0

NextRetry ==
    \/ \E c \in CallIds : LoadPost(c)
    \/ \E c \in CallIds : RecordedDispatch(c)
    \/ \E c \in CallIds : UpdatePublished(c)
    \/ \E c \in CallIds : LogSuccess(c)
    \/ \E c \in CallIds : UpdateFailed(c)
    \/ \E c \in CallIds : LogFailed(c)

SpecRetry == InitRetry /\ [][NextRetry]_vars

\* ------------------------------------------------ the adapters on their own
\* what the platform answers to one request: a 2xx, an error response, or
\* nothing (the transport failed).  axios throws for the last two.
VendorResponses == {"ok", "error", "network"}

Published(id) ==
    [raised |-> FALSE, success |-> TRUE, id |-> id, url |-> id, message |-> "published"]

\* the catch block of an adapter: the normalized failure
Failure(response) ==
    [raised |-> FALSE, success |-> FALSE, id |-> 0, url |-> 0,
     message |-> IF response = "error" THEN "vendor_error" ELSE "no_response"]

Raise(message) == [NoResult EXCEPT !.raised = TRUE, !.message = message]

\* postToLinkedIn: the whole body is in the try.  With an image the upload
\* comes first; responses[1] answers it, responses[2] answers the post.
postToLinkedIn(token, image, responses, id) ==
    IF image /\ responses[1] # "ok" THEN Failure(responses[1])
    ELSE IF responses[2] # "ok" THEN Failure(responses[2])
    ELSE Published(id)

\* variant: the catch block throws the error on
postToFacebookRethrowing(token, pageId, responses, id) ==
    IF ~pageId \/ ~token THEN Raise("credentials_missing")
    ELSE IF responses[1] # "ok" THEN Raise("vendor_error")
    ELSE Published(id)

\* postToFacebook: the check of the credentials is outside the try
postToFacebook(token, pageId, responses, id) ==
    IF ~pageId \/ ~token THEN Raise("credentials_missing")
    ELSE IF responses[1] # "ok" THEN Failure(responses[1])
    ELSE Published(id)

\* postImageToInstagram: the media container, then its publication
postImageToInstagram(token, accountId, image, responses, id) ==
    IF ~accountId \/ ~token \/ ~image THEN Raise("credentials_missing")
    ELSE IF responses[1] # "ok" THEN Failure(responses[1])
    ELSE IF responses[2] # "ok" THEN Failure(responses[2])
    ELSE Published(id)

\* the requests an adapter call makes before it ends
RequestsMade(platform, token, target, image, responses) ==
    IF platform = "linkedin"
    THEN IF image THEN IF responses[1] = "ok" THEN {1, 2} ELSE {1} ELSE {2}
    ELSE IF platform = "facebook"
    THEN IF ~target \/ ~token THEN {} ELSE {1}
    ELSE IF ~target \/ ~token \/ ~image THEN {}
    ELSE IF responses[1] = "ok" THEN {1, 2} ELSE {1}

CallAdapter(platform, token, target, image, responses, id) ==
    IF platform = "linkedin" THEN postToLinkedIn(token, image, responses, id)
    ELSE IF platform = "facebook" THEN postToFacebook(token, target, responses, id)
    ELSE postImageToInstagram(token, target, image, responses, id)

\* what publishPost sees of a result
OutcomeOf(result) ==
    IF result.raised THEN "raise" ELSE IF result.success THEN "ok" ELSE "fail"

AdapterCall(c) ==
    /\ calls[c].pc = "dispatch"
    /\ \E token \in BOOLEAN, target \in BOOLEAN, responses \in [1..2 -> VendorResponses] :
          LET result == CallAdapter(calls[c].platform, token, target, calls[c].hasMedia,
                                    responses, ExternalId(c))
          IN  /\ calls' = [calls EXCEPT ![c] =
                    [@ EXCEPT !.pc = "adapterEnded",
                              !.adapter = [token |-> token, target |-> target,
                                           image |-> calls[c].hasMedia,
                                           responses |-> responses, result |-> result]]]
              /\ platformPosts' =
                    IF result.success
                    THEN platformPosts \cup {[id |-> result.id, postId |-> PostIdOf(c), call |-> c]}
                    ELSE platformPosts
    /\ UNCHANGED <<drafts, accounts, agents, logs, now, trig, lastWriter, edits>>

\* one adapter call, for any of the three platforms, with and without an image
InitAdapter ==
    /\ drafts \in InitTables
    /\ accounts = InitAccounts
    /\ agents = InitAgents
    /\ logs = GenerationLogsOf(drafts)
    /\ platformPosts = {}
    /\ now = StartTime
    /\ trig = [t \in Triggers |-> IF t = 2 THEN DirectCaller ELSE IdleTrigger]
    /\ \E k \in CallIds, platform \in {"linkedin", "facebook", "instagram"}, image \in BOOLEAN :
          calls = [c \in CallIds |->
                     IF c = k
                     THEN [NoCall EXCEPT !.userId = 1, !.pc = "dispatch",
                                         !.platform = platform, !.hasMedia = image]
                     ELSE NoCall]
    /\ lastWriter = [p \in DraftIds |-> NoWriter]
    /\ edits = 0

NextAdapter == \E c \in CallIds : AdapterCall(c)

SpecAdapter == InitAdapter /\ [][NextAdapter]_vars

\* ------------------------------------------------- the texts of the adapters
\* Array.prototype.join
RECURSIVE Join(_, _)
Join(strings, separator) ==
    IF strings = <<>> THEN <<>>
    ELSE IF Len(strings) = 1 THEN strings[1]
    ELSE strings[1] \o separator \o Join(Tail(strings), separator)

Ellipsis == <<".", ".", ".">>
BlankLine == <<"\n", "\n">>

\* the body, and after a blank line the hashtags joined by spaces
WithHashtags(text, hashtags) ==
    IF Len(hashtags) > 0 THEN text \o BlankLine \o Join(hashtags, <<" ">>) ELSE text

\* variant: the caption is cut at the limit and the marker added to it
formatInstagramCaptionCutAtLimit(request) ==
    LET caption == WithHashtags(request.content, request.hashtags)
    IN  IF Len(caption) > InstagramCaptionLimit
        THEN SubSeq(caption, 1, InstagramCaptionLimit) \o Ellipsis
        ELSE caption

formatInstagramCaption(request) ==
    LET caption == WithHashtags(request.content, request.hashtags)
    IN  IF Len(caption) > InstagramCaptionLimit
        THEN SubSeq(caption, 1, InstagramCaptionKept) \o Ellipsis
        ELSE caption

\* title, blank line, body, blank line, hashtags; the length is not looked at
formatLinkedInPost(request) ==
    WithHashtags((IF Len(request.title) > 0 THEN request.title \o BlankLine ELSE <<>>)
                    \o request.content,
                 request.hashtags)

\* the text an adapter sends: the caption of postImageToInstagram, the
\* shareCommentary text of postToLinkedIn
TextSent(platform, request) ==
    IF platform = "instagram" THEN formatInstagramCaption(request)
    ELSE formatLinkedInPost(request)

FormatText(c) ==
    /\ calls[c].pc = "format"
    /\ calls' = [calls EXCEPT ![c] =
                   [@ EXCEPT !.pc = "formatted",
                             !.format.text = TextSent(calls[c].platform,
                                                      calls[c].format.request)]]
    /\ UNCHANGED <<drafts, accounts, agents, logs, platformPosts, now, trig,
                   lastWriter, edits>>

\* a text of n characters
Text(n) == [i \in 1..n |-> "x"]

\* the lengths tried: short ones, and those around the limit of the platform
TextLengths(limit) == (0..MaxSlack) \cup ((limit - MaxSlack)..(limit + MaxSlack))

HashtagLists == {<<>>, << <<"#", "a">> >>, << <<"#", "a">>, <<"#", "b", "c">> >>}

\* the limit LinkedIn documents for the commentary of a post; the code has
\* no such number
LinkedInTextLimit == 3000

InitFormat ==
    /\ drafts \in InitTables
    /\ accounts = InitAccounts
    /\ agents = InitAgents
    /\ logs = GenerationLogsOf(drafts)
    /\ platformPosts = {}
    /\ now = StartTime
    /\ trig = [t \in Triggers |-> IF t = 2 THEN DirectCaller ELSE IdleTrigger]
    /\ \E platform \in {"linkedin", "instagram"}, hashtags \in HashtagLists,
          titled \in BOOLEAN :
          \E n \in TextLengths(IF platform = "instagram" THEN InstagramCaptionLimit
                                ELSE LinkedInTextLimit) :
             calls = [c \in CallIds |->
                        IF c = <<2, 1>>
                        THEN [NoCall EXCEPT
                                !.userId = 1, !.pc = "format", !.platform = platform,
                                !.format.request =
                                   [title |-> IF titled /\ platform = "linkedin"
                                              THEN <<"T">> ELSE <<>>,
                                    content |-> Text(n), hashtags |-> hashtags]]
                        ELSE NoCall]
    /\ lastWriter = [p \in DraftIds |-> NoWriter]
    /\ edits = 0

NextFormat == \E c \in CallIds : FormatText(c)

SpecFormat == InitFormat /\ [][NextFormat]_vars

\* ------------------------------------------------------ the OAuth callbacks
\* social_media_accounts with the account id the platform gives (accountId)
\* and the callback that wrote the tokens last
MaxCallbacks == MaxEdits + 2
OAuthAccountIds == 1..(MaxEdits + 3)
ExternalIds == {"a", "b"}

KeyedAccount(u, platform, externalId, callback) ==
    [userId |-> u, platform |-> platform, isActive |-> TRUE,
     accountId |-> externalId, tokensOf |-> callback]

RowsWithKey(accts, u, platform, externalId) ==
    {a \in DOMAIN accts : /\ accts[a] # NoAccount /\ accts[a].userId = u
                          /\ accts[a].platform = platform
                          /\ accts[a].accountId = externalId}

\* the id an INSERT into social_media_accounts gets; 0 when the table of the
\* model is full
NextAccountId(accts) ==
    LET used == {a \in DOMAIN accts : accts[a] # NoAccount}
        next == IF used = {} THEN 1
                ELSE 1 + CHOOSE a \in used : \A b \in used : b <= a
    IN  IF next \in DOMAIN accts THEN next ELSE 0

\* db.insert(socialMediaAccounts).values([accountData]): a new row.  The
\* schema declares no unique index on the table; in a database that has one
\* on (userId, platform, accountId) the INSERT of a known account throws, and
\* the catch answers success: false.
InsertOutcomes(accts, u, platform, externalId) ==
    IF RowsWithKey(accts, u, platform, externalId) = {}
    THEN {"inserted"} ELSE {"inserted", "refused"}

\* linkedinRouter.handleCallback
LinkedInHandleCallback(u, externalId) ==
    /\ edits < MaxCallbacks
    /\ edits' = edits + 1
    /\ \E out \in InsertOutcomes(accounts, u, "linkedin", externalId) :
          IF out = "inserted"
          THEN /\ NextAccountId(accounts) # 0
               /\ accounts' = [accounts EXCEPT ![NextAccountId(accounts)] =
                                 KeyedAccount(u, "linkedin", externalId, edits + 1)]
          ELSE UNCHANGED accounts
    /\ UNCHANGED <<drafts, agents, logs, platformPosts, now, trig, calls, lastWriter>>

\* insert(...).onConflictDoUpdate({ target: [userId, platform, accountId] })
Upsert(accts, u, platform, externalId, callback) ==
    IF RowsWithKey(accts, u, platform, externalId) # {}
    THEN [a \in DOMAIN accts |->
            IF a \in RowsWithKey(accts, u, platform, externalId)
            THEN [accts[a] EXCEPT !.isActive = TRUE, !.tokensOf = callback]
            ELSE accts[a]]
    ELSE [accts EXCEPT ![NextAccountId(accts)] =
            KeyedAccount(u, platform, externalId, callback)]

\* metaRouter.handleCallback for one page, with or without an Instagram
\* account behind it: both are upserted, and the user's other Facebook and
\* Instagram accounts are deleted
MetaHandleCallback(u, page, withInstagram) ==
    /\ edits < MaxCallbacks
    /\ edits' = edits + 1
    /\ LET one == Upsert(accounts, u, "facebook", page, edits + 1)
           two == IF withInstagram
                  THEN Upsert(one, u, "instagram", page, edits + 1) ELSE one
       IN  /\ RowsWithKey(accounts, u, "facebook", page) = {} => NextAccountId(accounts) # 0
           /\ (withInstagram /\ RowsWithKey(one, u, "instagram", page) = {})
                 => NextAccountId(one) # 0
           /\ accounts' = [a \in DOMAIN two |->
                             IF /\ two[a] # NoAccount /\ two[a].userId = u
                                /\ two[a].platform \in {"facebook", "instagram"}
                                /\ ~( two[a].accountId = page
                                      /\ (two[a].platform = "facebook" \/ withInstagram) )
                             THEN NoAccount ELSE two[a]]
    /\ UNCHANGED <<drafts, agents, logs, platformPosts, now, trig, calls, lastWriter>>

InitOAuth ==
    /\ drafts \in InitTables
    /\ accounts = [a \in OAuthAccountIds |-> NoAccount]
    /\ agents = InitAgents
    /\ logs = GenerationLogsOf(drafts)
    /\ platformPosts = {}
    /\ now = StartTime
    /\ trig = [t \in Triggers |-> IdleTrigger]
    /\ calls = [c \in CallIds |-> NoCall]
    /\ lastWriter = [p \in DraftIds |-> NoWriter]
    /\ edits = 0

NextOAuth ==
    \/ \E u \in Users, externalId \in ExternalIds : LinkedInHandleCallback(u, externalId)
    \/ \E u \in Users, page \in ExternalIds, withInstagram \in BOOLEAN :
          MetaHandleCallback(u, page, withInstagram)

SpecOAuth == InitOAuth /\ [][NextOAuth]_vars

\* ------------------------------------------------- the LinkedIn tokens
\* social_media_accounts with the access token (the number of the token
\* LinkedIn issued) and whether the row has a refresh token
TokenAccount(u, refreshToken) ==
    [userId |-> u, platform |-> "linkedin", isActive |-> TRUE,
     accessToken |-> 0, refreshToken |-> refreshToken]

\* refreshAccessToken returns LinkedIn's answer or throws; the UPDATE that
\* stores the answer may throw as well, after accessToken was assigned
RefreshOutcomes == {"ok", "unsaved", "fails"}

\* linkedinRouter.postContent up to the refresh: the account of the caller,
\* the post of the caller; a miss is logged as a failure
PostContentStart(t, u, a, p) ==
    /\ trig[t].kind = "idle"
    /\ edits < MaxEdits
    /\ edits' = edits + 1
    /\ IF ~(accounts[a] # NoAccount /\ accounts[a].userId = u
             /\ accounts[a].platform = "linkedin")
       THEN /\ logs' = logs (+) SetToBag({DirectLog(u, p, "failed", "no_account")})
            /\ trig' = [trig EXCEPT ![t] = [IdleTrigger EXCEPT !.kind = "postContent",
                                              !.pc = "done", !.userId = u, !.post = p]]
       ELSE IF ~OwnershipOk(drafts[p], u)
       THEN /\ logs' = logs (+) SetToBag({DirectLog(u, p, "failed", "not_found")})
            /\ trig' = [trig EXCEPT ![t] = [IdleTrigger EXCEPT !.kind = "postContent",
                                              !.pc = "done", !.userId = u, !.post = p]]
       ELSE /\ trig' = [trig EXCEPT ![t] =
                          [IdleTrigger EXCEPT !.kind = "postContent", !.pc = "refresh",
                                              !.userId = u, !.post = p, !.account = a,
                                              !.token = accounts[a].accessToken,
                                              !.storedToken = accounts[a].accessToken,
                                              !.hadRefreshToken = accounts[a].refreshToken]]
            /\ UNCHANGED logs
    /\ UNCHANGED <<drafts, accounts, agents, platformPosts, now, calls, lastWriter>>

\* if (account[0].refreshToken) try { refresh, store } catch { warn }
PostContentRefresh(t) ==
    /\ trig[t].kind = "postContent" /\ trig[t].pc = "refresh"
    /\ IF trig[t].hadRefreshToken
       THEN \E out \in RefreshOutcomes :
              /\ trig' = [trig EXCEPT ![t] =
                            [@ EXCEPT !.pc = "post", !.refreshes = @ + 1,
                                      !.refreshed = out,
                                      !.token = IF out = "fails" THEN @ ELSE @ + 1]]
              /\ IF out = "ok"
                 THEN accounts' = [accounts EXCEPT ![trig[t].account].accessToken =
                                     trig[t].token + 1]
                 ELSE UNCHANGED accounts
       ELSE /\ trig' = [trig EXCEPT ![t].pc = "post"]
            /\ UNCHANGED accounts
    /\ UNCHANGED <<drafts, agents, logs, platformPosts, now, calls, lastWriter, edits>>

\* postToLinkedIn(accessToken, ...) and what follows it
PostContentSend(t) ==
    /\ trig[t].kind = "postContent" /\ trig[t].pc = "post"
    /\ trig' = [trig EXCEPT ![t] = [@ EXCEPT !.pc = "done", !.sent = TRUE]]
    /\ LET u == trig[t].userId
           p == trig[t].post
       IN  \E out \in LinkedInOutcomes :
             IF out = "ok"
             THEN /\ platformPosts' = platformPosts \cup
                         {[id |-> DirectExternalId, postId |-> p, call |-> NoWriter]}
                  /\ drafts' = [drafts EXCEPT ![p] =
                                  IF @ = NoDraft THEN @
                                  ELSE PublishedRow(@, now, DirectExternalId)]
                  /\ lastWriter' = [lastWriter EXCEPT ![p] = NoWriter]
                  /\ logs' = logs (+) SetToBag({DirectLog(u, p, "success", "posted")})
             ELSE /\ logs' = logs (+) SetToBag({DirectLog(u, p, "failed", "adapter_fail")})
                  /\ UNCHANGED <<drafts, platformPosts, lastWriter>>
    /\ UNCHANGED <<accounts, agents, now, calls, edits>>

\* a LinkedIn post of user 1 that is due, and the account of user 1, with
\* and without a refresh token; publishPost is called for the post, and the
\* user publishes it from the router
InitToken ==
    /\ drafts = (1 :> ScheduledRow(RouterPost(1, "linkedin", FALSE, 1), StartTime))
                 @@ (2 :> ScheduledRow(RouterPost(2, "linkedin", FALSE, 1), StartTime))
    /\ \E r1, r2 \in BOOLEAN :
          accounts = (1 :> TokenAccount(1, r1)) @@ (2 :> TokenAccount(2, r2))
                     @@ (3 :> NoAccount)
    /\ agents = InitAgents
    /\ logs = GenerationLogsOf(drafts)
    /\ platformPosts = {}
    /\ now = StartTime
    /\ trig = [t \in Triggers |-> IF t = 2 THEN DirectCaller ELSE IdleTrigger]
    /\ \E p \in DraftIds :
          calls = [c \in CallIds |-> IF c = <<2, p>> THEN NewCall(p) ELSE NoCall]
    /\ lastWriter = [p \in DraftIds |-> NoWriter]
    /\ edits = 0

NextToken ==
    \/ \E t \in Triggers, u \in Users, a \in DOMAIN accounts, p \in DraftIds :
          PostContentStart(t, u, a, p)
    \/ \E t \in Triggers : PostContentRefresh(t)
    \/ \E t \in Triggers : PostContentSend(t)
    \/ \E c \in CallIds : LoadPost(c)
    \/ \E c \in CallIds : Dispatch(c)
    \/ \E c \in CallIds : UpdatePublished(c)
    \/ \E c \in CallIds : LogSuccess(c)
    \/ \E c \in CallIds : UpdateFailed(c)
    \/ \E c \in CallIds : LogFailed(c)

SpecToken == InitToken /\ [][NextToken]_vars

\* ------------------------------------------------------ the token expiry
\* 5 * 60 * 1000: a token with less than five minutes left counts as expired
ExpiryMargin == 5 * 60 * MillisPerSecond

\* variant: expired from the margin on
isTokenExpiredFromMargin(expiresIn, issuedAt, clock) ==
    LET expiryTime == issuedAt + expiresIn * MillisPerSecond
    IN  clock >= expiryTime - ExpiryMargin

\* isTokenExpired(expiresIn, issuedAt), with the value Date.now() gave
isTokenExpired(expiresIn, issuedAt, clock) ==
    LET expiryTime == issuedAt + expiresIn * MillisPerSecond
    IN  clock > expiryTime - ExpiryMargin

CheckExpiry(c) ==
    /\ calls[c].pc = "expiry"
    /\ calls' = [calls EXCEPT ![c] =
                   [@ EXCEPT !.pc = "checked",
                             !.expiry = [@ EXCEPT !.clock = now, !.asked = TRUE,
                                                  !.expired = isTokenExpired(
                                                      calls[c].expiry.expiresIn,
                                                      calls[c].expiry.issuedAt, now)]]]
    /\ UNCHANGED <<drafts, accounts, agents, logs, platformPosts, now, trig,
                   lastWriter, edits>>

\* lifetimes in seconds: none, about the margin, an hour
Lifetimes == {0, 299, 300, 301, 3600}
IssueTimes == {0, 86400 * MillisPerSecond}

\* the clock about the issue time, about the margin and about the expiry
ClockReadings(expiresIn, issuedAt) ==
    LET expiryTime == issuedAt + expiresIn * MillisPerSecond
    IN  UNION {(t - MaxSlack)..(t + MaxSlack) :
                 t \in {issuedAt, expiryTime - ExpiryMargin, expiryTime}}

InitExpiry ==
    /\ drafts \in InitTables
    /\ accounts = InitAccounts
    /\ agents = InitAgents
    /\ logs = GenerationLogsOf(drafts)
    /\ platformPosts = {}
    /\ \E expiresIn \in Lifetimes, issuedAt \in IssueTimes :
          /\ now \in ClockReadings(expiresIn, issuedAt)
          /\ calls = [c \in CallIds |->
                        IF c = <<1, 1>>
                        THEN [NoCall EXCEPT !.pc = "expiry",
                                            !.expiry.expiresIn = expiresIn,
                                            !.expiry.issuedAt = issuedAt]
                        ELSE NoCall]
    /\ trig = [t \in Triggers |-> IdleTrigger]
    /\ lastWriter = [p \in DraftIds |-> NoWriter]
    /\ edits = 0

NextExpiry == \E c \in CallIds : CheckExpiry(c)

SpecExpiry == InitExpiry /\ [][NextExpiry]_vars

\* ------------------------------------------------ the selected accounts
\* aiAgent.updateConfig with selectedAccounts: the mapping is stored as it
\* came, in the agent of the caller; an agent of another user matches no row
UpdateConfig(u, agent, selectedAccounts) ==
    /\ agents' = IF agents[agent] # NoAgent /\ agents[agent].userId = u
                 THEN [agents EXCEPT ![agent].selectedAccounts = selectedAccounts]
                 ELSE agents
    /\ UNCHANGED <<drafts, accounts, logs, platformPosts, now, trig, calls,
                   lastWriter, edits>>

\* z.record(z.string(), z.number()): any number for any platform
Selections(accts) ==
    {[p \in Platforms |-> IF p = q THEN a ELSE 0] :
       q \in Platforms, a \in {0} \cup DOMAIN accts}

\* every user has an active LinkedIn account, user 1 one for Instagram too
SelectAccounts ==
    (1 :> [userId |-> 1, platform |-> "linkedin", isActive |-> TRUE]) @@
    (2 :> [userId |-> 2, platform |-> "linkedin", isActive |-> TRUE]) @@
    (3 :> [userId |-> 1, platform |-> "instagram", isActive |-> TRUE])

SelectAgent(u) ==
    [userId |-> u, isActive |-> TRUE, platforms |-> <<"linkedin">>,
     selectedAccounts |-> [p \in Platforms |-> 0]]

\* each user has an agent that selects nothing yet and a scheduled LinkedIn
\* post made with it by generateContent; publishPost is called for one of the
\* posts with its owner
InitSelect ==
    /\ drafts = [p \in DraftIds |->
                   ScheduledRow(RouterPost(p, "linkedin", FALSE, p), StartTime)]
    /\ accounts = SelectAccounts
    /\ agents = [u \in Users |-> SelectAgent(u)]
    /\ logs = GenerationLogsOf(drafts)
    /\ platformPosts = {}
    /\ now = StartTime
    /\ trig = [t \in Triggers |-> IF t = 2 THEN DirectCaller ELSE IdleTrigger]
    /\ \E p \in DraftIds :
          calls = [c \in CallIds |-> IF c = <<2, p>> THEN NewCall(p) ELSE NoCall]
    /\ lastWriter = [p \in DraftIds |-> NoWriter]
    /\ edits = 0

NextSelect ==
    \/ \E u \in Users, agent \in DOMAIN agents, sel \in Selections(accounts) :
          UpdateConfig(u, agent, sel)
    \/ \E c \in CallIds : LoadPost(c)
    \/ \E c \in CallIds : Dispatch(c)
    \/ \E c \in CallIds : UpdatePublished(c)
    \/ \E c \in CallIds : LogSuccess(c)
    \/ \E c \in CallIds : UpdateFailed(c)
    \/ \E c \in CallIds : LogFailed(c)

SpecSelect == InitSelect /\ [][NextSelect]_vars

\* ------------------------------------------------- a user and the sweep
\* a signed-in user (ctx.user) who calls the router
Session(u) == [IdleTrigger EXCEPT !.kind = "session", !.pc = "await", !.userId = u]

\* schedulePost as a protectedProcedure: called by the user of a session
SessionSchedulePost(t, p, at) ==
    /\ trig[t].kind = "session"
    /\ SchedulePost(p, at)

\* each user has a LinkedIn draft and an active LinkedIn account; one of the
\* users is signed in, and a sweep runs.  No post is deleted: no publishPost
\* call throws and the sweep's catch is not entered
InitSession ==
    /\ drafts = [p \in DraftIds |-> RouterPost(p, "linkedin", FALSE, 0)]
    /\ accounts = SelectAccounts
    /\ agents = [u \in Users |-> SelectAgent(u)]
    /\ logs = EmptyBag
    /\ platformPosts = {}
    /\ now = StartTime
    /\ \E u \in Users :
          trig = [t \in Triggers |-> IF t = 1 THEN Session(u) ELSE IdleTrigger]
    /\ calls = [c \in CallIds |-> NoCall]
    /\ lastWriter = [p \in DraftIds |-> NoWriter]
    /\ edits = 0

NextSession ==
    \/ \E p \in DraftIds, at \in Times : SessionSchedulePost(1, p, at)
    \/ Tick
    \/ StartSweep(2)
    \/ SweepDispatch(2)
    \/ SweepFinish(2)
    \/ \E c \in CallIds : LoadPost(c)
    \/ \E c \in CallIds : Dispatch(c)
    \/ \E c \in CallIds : UpdatePublished(c)
    \/ \E c \in CallIds : LogSuccess(c)
    \/ \E c \in CallIds : UpdateFailed(c)
    \/ \E c \in CallIds : LogFailed(c)

SpecSession == InitSession /\ [][NextSession]_vars

\* ------------------------------------------------ one sweep after another
\* a sweep starts when no other sweep is in its loop
SequentialStart(t) ==
    /\ \A other \in Triggers \ {t} : trig[other].pc # "loop"
    /\ StartSweep(t)

\* One LinkedIn post of user 1 is due; there is no other post.  The sweeps
\* run one after another, every sweep notes what the adapter did at each
\* attempt, no router publishes, a user may call schedulePost, and the INSERT
\* of the success row may throw.
InitSequential ==
    /\ drafts = (1 :> ScheduledRow(RouterPost(1, "linkedin", FALSE, 1), StartTime))
                 @@ (2 :> NoDraft)
    /\ accounts = InitAccounts
    /\ agents = InitAgents
    /\ logs = EmptyBag
    /\ platformPosts = {}
    /\ now = StartTime
    /\ trig = [t \in Triggers |-> IdleTrigger]
    /\ calls = [c \in CallIds |-> NoCall]
    /\ lastWriter = [p \in DraftIds |-> NoWriter]
    /\ edits = 0

NextSequential ==
    \/ \E t \in Triggers : SequentialStart(t)
    \/ \E t \in Triggers : SweepDispatch(t)
    \/ \E t \in Triggers : SweepFinish(t)
    \/ \E c \in CallIds : LoadPost(c)
    \/ \E c \in CallIds : RecordedDispatch(c)
    \/ \E c \in CallIds : UpdatePublished(c)
    \/ \E c \in CallIds : LogSuccess(c)
    \/ \E c \in CallIds : LogSuccessFails(c)
    \/ \E c \in CallIds : UpdateFailed(c)
    \/ \E c \in CallIds : LogFailed(c)
    \/ \E p \in DraftIds, at \in Times : SchedulePost(p, at)
    \/ Tick

SpecSequential == InitSequential /\ [][NextSequential]_vars

\* --------------------------------------------------- one sweep to its end
\* the steps of a sweep and of its publishPost calls: the runtime runs every
\* continuation that is ready (the adapters and the database answer or time
\* out, the retry delay is a 5 second timer)
SweepSteps ==
    \/ \E t \in Triggers : StartSweep(t)
    \/ \E t \in Triggers : SweepDispatch(t)
    \/ \E t \in Triggers : SweepFinish(t)
    \/ \E t \in Triggers : SweepAbort(t)
    \/ \E c \in CallIds : LoadPost(c)
    \/ \E c \in CallIds : Dispatch(c)
    \/ \E c \in CallIds : UpdatePublished(c)
    \/ \E c \in CallIds : LogSuccess(c)
    \/ \E c \in CallIds : UpdateFailed(c)
    \/ \E c \in CallIds : LogFailed(c)

\* the sweeps over the tables of Init, every write succeeding, while users
\* may delete their posts
NextSweep ==
    \/ SweepSteps
    \/ \E u \in Users, p \in DraftIds : DeletePost(u, p)

SpecSweep == Init /\ [][NextSweep]_vars /\ WF_vars(SweepSteps)

\* ------------------------------------------- account resolution on its own
\* findSelectedAccount over all small account tables and agent selections:
\* one publishPost call for post 1, a LinkedIn post of user 1
ResolveAccountRows ==
    {NoAccount} \cup [userId : Users, platform : {"linkedin", "facebook"},
                      isActive : BOOLEAN]

ResolveAgent(sel) ==
    [userId |-> 1, isActive |-> TRUE, platforms |-> <<"linkedin">>,
     selectedAccounts |-> [p \in Platforms |-> IF p = "linkedin" THEN sel ELSE 0]]

InitResolve ==
    /\ accounts \in [{1, 2} -> ResolveAccountRows]
    /\ \E sel \in 0..3 : agents = (1 :> ResolveAgent(sel)) @@ (2 :> NoAgent)
    /\ \E ag \in 0..2 :
          drafts = (1 :> ScheduledRow(RouterPost(1, "linkedin", FALSE, ag), StartTime))
                   @@ (2 :> NoDraft)
    /\ logs = EmptyBag
    /\ platformPosts = {}
    /\ now = StartTime
    /\ trig = [t \in Triggers |->
                 IF t = 2 THEN DirectCaller ELSE IdleTrigger]
    /\ calls = [c \in CallIds |-> IF c = <<2, 1>> THEN NewCall(1) ELSE NoCall]
    /\ lastWriter = [p \in DraftIds |-> NoWriter]
    /\ edits = 0

NextResolve == \E c \in CallIds : LoadPost(c)

SpecResolve == InitResolve /\ [][NextResolve]_vars

\* ------------------------------------------------------- reading the tables
\* the posting_logs rows a publishPost call wrote
LogsBy(c) == {e \in BagToSet(logs) : e.call = c}

\* the success rows of posting_logs with a postId
SuccessLogsOfPost(p) == {e \in BagToSet(logs) : e.postId = p /\ e.status = "success"}

\* how many rows of posting_logs are in S
NumberOf(S) == BagCardinality([e \in S |-> CopiesIn(e, logs)])

\* the posts a call's adapter published
PostedBy(c) == {x \in platformPosts : x.call = c}

ErrorDetails == {"no_account", "unsupported", "no_image", "adapter_fail", "adapter_raise"}

\* ------------------------------------------------------------------ C1
\* C1 as stated: after publishPost succeeded, and with no later write to the
\* row, the draft is published, publishedAt is set, externalPostId is the
\* adapter's id, and posting_logs holds exactly one success row with the postId.
C1_AsStated ==
    \A c \in CallIds :
       LET p == PostIdOf(c)
       IN  (calls[c].pc = "done" /\ lastWriter[p] = c) =>
              /\ drafts[p].status = "published"
              /\ drafts[p].publishedAt # 0
              /\ \E x \in PostedBy(c) : drafts[p].externalPostId = x.id
              /\ NumberOf(SuccessLogsOfPost(p)) = 1

\* C1, amended: once publishPost has written its success, and while no other
\* write or delete has touched the row since, the draft is published with
\* publishedAt set and externalPostId the id the adapter returned; when the
\* call has returned it has written exactly one posting_logs row, a success
\* row with the postId and the adapter's id.  (Other success rows with the
\* postId may exist: the daily job's and those of other publishPost calls.)
C1_SuccessPostcondition ==
    \A c \in CallIds :
       LET p == PostIdOf(c)
       IN  /\ (calls[c].pc \in {"logSuccess", "done"} /\ lastWriter[p] = c) =>
                 /\ drafts[p].status = "published"
                 /\ drafts[p].publishedAt # 0
                 /\ \E x \in PostedBy(c) : x.postId = p /\ drafts[p].externalPostId = x.id
           /\ calls[c].pc = "done" =>
                 /\ NumberOf(LogsBy(c)) = 1
                 /\ \A e \in LogsBy(c) :
                       /\ e.status = "success" /\ e.postId = p
                       /\ \E x \in PostedBy(c) : e.platformPostId = x.id

C1_Witness ==
    \E c \in CallIds :
       /\ calls[c].pc = "done" /\ lastWriter[PostIdOf(c)] = c
       /\ drafts[PostIdOf(c)].status = "published"
       /\ drafts[PostIdOf(c)].externalPostId = ExternalId(c)
       /\ NumberOf(LogsBy(c)) = 1
       /\ NumberOf(SuccessLogsOfPost(PostIdOf(c))) = 2

\* ------------------------------------------------------------------ C2
\* C2: a publishPost call whose SELECT finds no row, or a row of another
\* user, throws at once: its next step ends it with no retry made and no
\* adapter called, and changes no draft, log row or platform; a call that
\* threw has written no log row, published nothing and written no draft.
C2_NotFoundThrowsAtOnce ==
    /\ [][\A c \in CallIds :
            ( /\ calls[c].pc = "load"
              /\ \/ drafts[PostIdOf(c)] = NoDraft
                 \/ drafts[PostIdOf(c)].userId # calls[c].userId
              /\ calls'[c] # calls[c] )
            => /\ calls'[c].pc = "threw"
               /\ calls'[c].retryCount = 0 /\ calls'[c].tries = 0
               /\ drafts' = drafts /\ logs' = logs
               /\ platformPosts' = platformPosts /\ lastWriter' = lastWriter]_vars
    /\ [](\A c \in CallIds :
            calls[c].pc = "threw" =>
               /\ LogsBy(c) = {} /\ PostedBy(c) = {}
               /\ \A p \in DraftIds : lastWriter[p] # c)

C2_Witness ==
    \E c \in CallIds :
       /\ calls[c].pc = "threw" /\ calls[c].retryCount = 0
       /\ drafts[PostIdOf(c)] # NoDraft
       /\ drafts[PostIdOf(c)].userId # calls[c].userId

\* ------------------------------------------------------------------ C3
\* C3: a publishPost call gets to its final failure only with retryCount = 2,
\* after three invocations; when the adapter was what failed, it was called
\* exactly three times; the call then sets the draft to failed, writes one
\* failed log row carrying the error, and returns -- a call whose three
\* adapter attempts failed does not throw.
C3_ThreeAttemptsThenFailed ==
    \A c \in CallIds :
       LET p == PostIdOf(c)
       IN  /\ calls[c].pc \in {"updateFailed", "logFailed", "failed"} =>
                 /\ calls[c].retryCount = 2
                 /\ calls[c].tries <= 3
           /\ ( /\ calls[c].pc \in {"updateFailed", "logFailed"}
                /\ calls[c].err \in {"adapter_fail", "adapter_raise"} ) =>
                 calls[c].tries = 3
           /\ (calls[c].pc \in {"logFailed", "failed"} /\ lastWriter[p] = c) =>
                 drafts[p].status = "failed"
           /\ calls[c].pc = "failed" =>
                 /\ NumberOf(LogsBy(c)) = 1
                 /\ \A e \in LogsBy(c) :
                       /\ e.status = "failed" /\ e.postId = p
                       /\ e.errorMessage \in ErrorDetails
           /\ calls[c].pc = "threw" => calls[c].tries < 3

C3_Witness ==
    \E c \in CallIds :
       /\ calls[c].pc = "failed" /\ calls[c].tries = 3
       /\ lastWriter[PostIdOf(c)] = c
       /\ drafts[PostIdOf(c)].status = "failed"
       /\ \E e \in LogsBy(c) : e.errorMessage = "adapter_fail"

C5_NoAccountNotRetried ==
    \A c \in CallIds :
       calls[c].err = "no_account" =>
          (calls[c].pc # "sleep" /\ calls[c].retryCount = 0)

MappedAccount(row) ==
    IF row.agentId \in DOMAIN agents
    THEN agents[row.agentId].selectedAccounts[row.platform]
    ELSE 0

ActiveAccountsFor(row) ==
    {a \in DOMAIN accounts : /\ accounts[a].isActive
                             /\ accounts[a].userId = row.userId
                             /\ accounts[a].platform = row.platform}

C7_ResolutionNeverInactive ==
    \A c \in CallIds :
       LET row == drafts[PostIdOf(c)]
           acc == calls[c].account
       IN  /\ calls[c].pc = "dispatch" =>
                 /\ acc \in DOMAIN accounts
                 /\ accounts[acc].isActive
                 /\ \/ acc = MappedAccount(row)
                    \/ /\ \/ MappedAccount(row) \notin DOMAIN accounts
                          \/ ~accounts[MappedAccount(row)].isActive
                       /\ acc \in ActiveAccountsFor(row)
           /\ calls[c].err = "no_account" =>
                 /\ ActiveAccountsFor(row) = {}
                 /\ \/ MappedAccount(row) \notin DOMAIN accounts
                    \/ ~accounts[MappedAccount(row)].isActive

\* the mapped account is inactive and the fallback found an active one
C7_Witness ==
    \E c \in CallIds :
       /\ calls[c].pc = "dispatch"
       /\ MappedAccount(drafts[PostIdOf(c)]) \in DOMAIN accounts
       /\ accounts[MappedAccount(drafts[PostIdOf(c)])] # NoAccount
       /\ ~accounts[MappedAccount(drafts[PostIdOf(c)])].isActive
       /\ calls[c].account # MappedAccount(drafts[PostIdOf(c)])
       /\ accounts[calls[c].account].isActive

\* ------------------------------------------------------------------ C8
\* C8 as stated: a sweep that has ended has called publishPost for every
\* draft of its result set.
C8_EveryDueDraftIsPublished ==
    \A t \in Triggers :
       (trig[t].kind = "sweep" /\ trig[t].pc \in {"finished", "aborted"}) =>
          \A d \in trig[t].due : calls[<<t, d.id>>] # NoCall

C10_OneAtATime ==
    \A t \in Triggers :
       trig[t].kind = "sweep" =>
          /\ Cardinality({c \in CallsOf(t) : ~Returned(c)}) <= 1
          /\ \A c \in CallsOf(t) :
                InFlight(c) => \A k \in CallsOf(t) \ {c} : calls[k].pc \in {"done", "failed"}
          /\ \A d \in trig[t].due :
                (d \in trig[t].todo) <=> (calls[<<t, d.id>>] = NoCall)

\* the first draft failed after its retries, the second is at its adapter call
C10_Witness ==
    \E t \in Triggers, c, k \in CallIds :
       /\ trig[t].kind = "sweep" /\ c \in CallsOf(t) /\ k \in CallsOf(t)
       /\ calls[c].pc = "failed" /\ calls[c].tries = 3
       /\ calls[k].pc = "dispatch"

\* ----------------------------------------------------------------- C11
\* C11 as stated: once a draft is published or failed, no step of a sweep or
\* of publishPost (any step that is not a schedulePost or deletePost request)
\* changes its status or publishes it to a platform again.
C11_TerminalStatuses ==
    [][\A p \in DraftIds :
          (drafts[p].status \in {"published", "failed"} /\ edits' = edits) =>
             /\ drafts'[p].status = drafts[p].status
             /\ {x \in platformPosts' : x.postId = p} =
                   {x \in platformPosts : x.postId = p}]_vars

\* ----------------------------------------------------------------- C12
\* C12: a publishPost call that has returned has written exactly one
\* posting_logs row, all its retries counted; the row is for the call's draft
\* and user, and it is a success row exactly when the call returned success
\* and a failed row exactly when it returned failure.
C12_OneLogPerReturnedCall ==
    \A c \in CallIds :
       calls[c].pc \in {"done", "failed"} =>
          /\ NumberOf(LogsBy(c)) = 1
          /\ \A e \in LogsBy(c) :
                /\ e.postId = PostIdOf(c) /\ e.userId = calls[c].userId
                /\ (e.status = "success") <=> (calls[c].pc = "done")
                /\ (e.status = "failed") <=> (calls[c].pc = "failed")

\* one call returned failure after its retries, another returned success
C12_Witness ==
    \E c, k \in CallIds :
       /\ calls[c].pc = "failed" /\ calls[c].retryCount = 2
       /\ calls[k].pc = "done"
       /\ NumberOf(LogsBy(c)) = 1 /\ NumberOf(LogsBy(k)) = 1

\* ----------------------------------------------------------------- C13
\* C13: the status UPDATE and the log INSERT of an outcome are two steps.  A
\* call the process stopped between them, and a call whose failed INSERT
\* threw, has written no posting_logs row, while the draft carries the
\* outcome it wrote (published, or failed) unless written again since.
C13_OutcomeWithoutLog ==
    \A c \in CallIds :
       LET p == PostIdOf(c)
       IN  /\ (calls[c].pc = "stopped" /\ calls[c].stoppedAt = "logSuccess") =>
                 /\ LogsBy(c) = {}
                 /\ lastWriter[p] = c => drafts[p].status = "published"
           /\ (calls[c].pc = "stopped" /\ calls[c].stoppedAt = "logFailed") =>
                 /\ LogsBy(c) = {}
                 /\ lastWriter[p] = c => drafts[p].status = "failed"
           /\ calls[c].pc = "raised" =>
                 /\ LogsBy(c) = {}
                 /\ lastWriter[p] = c => drafts[p].status = "failed"

\* the process stopped after the UPDATE: published, and no row of any
\* publishPost call for the draft
C13_Witness ==
    \E c \in CallIds :
       /\ calls[c].pc = "stopped" /\ calls[c].stoppedAt = "logSuccess"
       /\ drafts[PostIdOf(c)].status = "published"
       /\ PostedBy(c) # {}
       /\ {e \in BagToSet(logs) : e.postId = PostIdOf(c) /\ e.call # NoWriter} = {}

PostsIn(rows) == {p \in DOMAIN rows : rows[p] # NoDraft}

\* what a run generated for an agent and a platform
MadeFor(t, a, platform) == {m \in trig[t].made : m.agent = a /\ m.platform = platform}

PlatformsOf(a) == {agents[a].platforms[i] : i \in DOMAIN agents[a].platforms}

\* C15: a step of the daily job that creates a post creates exactly one, for
\* an active agent, scheduled, with scheduledAt the agent's run time plus
\* five minutes.  When the run has finished there is, for every active agent
\* and every platform of it whose generation did not fail, exactly one
\* post, still as it was created; for an inactive agent there is none; and
\* the table holds no other post.
C15_OnePostPerAgentPlatform ==
    /\ [][PostsIn(drafts') # PostsIn(drafts) =>
               \E p \in DraftIds :
                  /\ PostsIn(drafts') = PostsIn(drafts) \cup {p}
                  /\ p \notin PostsIn(drafts)
                  /\ \A q \in PostsIn(drafts) : drafts'[q] = drafts[q]
                  /\ agents[trig[1].agent].isActive
                  /\ drafts'[p].userId = agents[trig[1].agent].userId
                  /\ drafts'[p].platform = Head(trig[1].platforms)
                  /\ drafts'[p].status = "scheduled"
                  /\ drafts'[p].scheduledAt = trig[1].at + GenerationOffset]_vars
    /\ [](trig[1].pc = "finished" =>
            /\ \A a \in DOMAIN agents :
                  IF agents[a].isActive
                  THEN \A platform \in PlatformsOf(a) :
                         \/ <<a, platform>> \in trig[1].failed /\ MadeFor(1, a, platform) = {}
                         \/ /\ <<a, platform>> \notin trig[1].failed
                            /\ Cardinality(MadeFor(1, a, platform)) = 1
                            /\ \A m \in MadeFor(1, a, platform) :
                                  /\ drafts[m.postId].userId = agents[a].userId
                                  /\ drafts[m.postId].platform = platform
                                  /\ drafts[m.postId].status = "scheduled"
                                  /\ drafts[m.postId].scheduledAt = m.at + GenerationOffset
                                  /\ m.at <= now
                  ELSE \A m \in trig[1].made : m.agent # a
            /\ PostsIn(drafts) = {m.postId : m \in trig[1].made}
            /\ Cardinality(PostsIn(drafts)) = Cardinality(trig[1].made))

\* the run is over, later than it began: the agent with two platforms has
\* its two posts, both for five minutes after its run time; the inactive
\* agent has none
C15_Witness ==
    /\ trig[1].pc = "finished" /\ now > StartTime
    /\ ~agents[2].isActive
    /\ Cardinality(PlatformsOf(1)) = 2
    /\ \A p \in DraftIds : /\ drafts[p].status = "scheduled"
                            /\ drafts[p].userId = agents[1].userId
                            /\ drafts[p].scheduledAt = StartTime + GenerationOffset
    /\ drafts[1].platform # drafts[2].platform

C17_ScheduledHasTime ==
    \A p \in DraftIds : drafts[p].status = "scheduled" => drafts[p].scheduledAt # 0

\* ------------------------------------------------------------------ C18
\* C18: a post becomes published or failed only in a step of a publishPost
\* call: the UPDATE that follows its adapter call, or the one that follows
\* its last retry, each followed by the call's row of posting_logs.
C18_OnlyPublishPostEnds ==
    [][\A p \in DraftIds :
          ( /\ drafts'[p].status \in {"published", "failed"}
            /\ drafts'[p].status # drafts[p].status )
          => \E c \in CallIds :
                /\ PostIdOf(c) = p
                /\ \/ /\ calls[c].pc = "updatePublished" /\ calls'[c].pc = "logSuccess"
                      /\ drafts'[p].status = "published"
                   \/ /\ calls[c].pc = "updateFailed" /\ calls'[c].pc = "logFailed"
                      /\ calls[c].retryCount = MaxRetryCount
                      /\ drafts'[p].status = "failed"]_vars

\* ------------------------------------------------------------------ C19
\* C19: an adapter call one of whose requests failed -- an error response
\* of the platform, or no response -- has not raised: it has returned
\* success = false with an empty id, an empty url and an error message, and
\* has published nothing.  An adapter raises only before its first request.
C19_VendorErrorIsReturned ==
    \A c \in CallIds :
       calls[c].pc = "adapterEnded" =>
          LET call == calls[c].adapter
              made == RequestsMade(calls[c].platform, call.token, call.target,
                                   call.image, call.responses)
          IN  /\ (\E i \in made : call.responses[i] # "ok") =>
                    /\ ~call.result.raised
                    /\ ~call.result.success
                    /\ call.result.id = 0 /\ call.result.url = 0
                    /\ call.result.message \in {"vendor_error", "no_response"}
                    /\ PostedBy(c) = {}
              /\ call.result.raised => made = {}
              /\ OutcomeOf(call.result) \in AdapterOutcomes(calls[c].platform)

\* Instagram took the image and answered the publication with an error
C19_Witness ==
    \E c \in CallIds :
       /\ calls[c].pc = "adapterEnded" /\ calls[c].platform = "instagram"
       /\ calls[c].adapter.responses = <<"ok", "error">>
       /\ calls[c].adapter.token /\ calls[c].adapter.target /\ calls[c].adapter.image
       /\ calls[c].adapter.result = Failure("error")

\* ------------------------------------------------------------------ C20
\* a sequence of outcomes with every exception read as success = false
Normalized(h) == [i \in DOMAIN h |-> IF h[i] = "raise" THEN "fail" ELSE h[i]]

AllFailures(h) == \A i \in DOMAIN h : h[i] = "fail"

\* a call's rows of posting_logs, without what names the call and the error
LogShapesBy(c) ==
    {[userId |-> e.userId, platform |-> e.platform, status |-> e.status] : e \in LogsBy(c)}

\* C20: where a publishPost call stands depends on what the adapter did at
\* its attempts only with every exception read as success = false: the number
\* of attempts made, whether it retries, and how it ends.  Two calls that
\* have returned after the same outcomes, read so, made the same number of
\* attempts, left their posts in the same status and wrote the same rows of
\* posting_logs.
C20_RaiseIsFailure ==
    /\ \A c \in RetryCalls :
          LET h == Normalized(OutcomesOf(c))
              n == Len(h)
          IN  /\ n <= MaxRetryCount + 1
              /\ \A i \in 1..(n - 1) : h[i] = "fail"
              /\ calls[c].pc # "done" => calls[c].tries = n
              /\ n = 0 => calls[c].pc \in {"load", "dispatch"}
              /\ (n > 0 /\ h[n] = "ok") =>
                    calls[c].pc \in {"updatePublished", "logSuccess", "done"}
              /\ (n > 0 /\ AllFailures(h) /\ n <= MaxRetryCount) =>
                    \/ calls[c].pc = "sleep" /\ calls[c].retryCount = n - 1
                    \/ calls[c].pc = "dispatch" /\ calls[c].retryCount = n
              /\ (AllFailures(h) /\ n = MaxRetryCount + 1) =>
                    calls[c].pc \in {"updateFailed", "logFailed", "failed"}
    /\ \A c, k \in RetryCalls :
          ( /\ Returned(c) /\ Returned(k)
            /\ Normalized(OutcomesOf(c)) = Normalized(OutcomesOf(k)) )
          => /\ calls[c].pc = calls[k].pc
             /\ calls[c].tries = calls[k].tries
             /\ drafts[PostIdOf(c)].status = drafts[PostIdOf(k)].status
             /\ LogShapesBy(c) = LogShapesBy(k)
             /\ NumberOf(LogsBy(c)) = NumberOf(LogsBy(k))

\* one call met three exceptions, the other three times success = false:
\* three attempts each, both posts failed, a failed row each
C20_Witness ==
    \E c, k \in RetryCalls :
       /\ OutcomesOf(c) = <<"raise", "raise", "raise">>
       /\ OutcomesOf(k) = <<"fail", "fail", "fail">>
       /\ calls[c].pc = "failed" /\ calls[k].pc = "failed"
       /\ calls[c].tries = MaxRetryCount + 1 /\ calls[k].tries = MaxRetryCount + 1
       /\ drafts[PostIdOf(c)].status = "failed" /\ drafts[PostIdOf(k)].status = "failed"
       /\ NumberOf(LogsBy(c)) = 1 /\ NumberOf(LogsBy(k)) = 1

\* ------------------------------------------------------------------ C21
\* the text before the cut: the body, then the hashtags joined by spaces
UncutCaption(request) == WithHashtags(request.content, request.hashtags)

\* C21: the Instagram caption is made of the body with the space-joined
\* hashtags appended; when that has at most 2200 characters it is sent as it
\* is; when it has more, the caption is its first 2197 characters and then
\* "...", 2200 characters in all.
C21_CaptionWithinLimit ==
    \A c \in CallIds :
       (calls[c].pc = "formatted" /\ calls[c].platform = "instagram") =>
          LET uncut == UncutCaption(calls[c].format.request)
              text == calls[c].format.text
          IN  /\ Len(uncut) <= InstagramCaptionLimit => text = uncut
              /\ Len(uncut) > InstagramCaptionLimit =>
                    /\ Len(text) = InstagramCaptionLimit
                    /\ SubSeq(text, 1, InstagramCaptionKept) = SubSeq(uncut, 1, InstagramCaptionKept)
                    /\ SubSeq(text, InstagramCaptionKept + 1, InstagramCaptionLimit) = Ellipsis
              /\ \A i \in DOMAIN calls[c].format.request.hashtags :
                    Len(uncut) <= InstagramCaptionLimit =>
                       \E k \in 1..(Len(text) - Len(calls[c].format.request.hashtags[i]) + 1) :
                          SubSeq(text, k, k + Len(calls[c].format.request.hashtags[i]) - 1)
                             = calls[c].format.request.hashtags[i]

\* a body under the limit that its hashtags took over it: cut, with the marker
C21_Witness ==
    \E c \in CallIds :
       /\ calls[c].pc = "formatted" /\ calls[c].platform = "instagram"
       /\ Len(calls[c].format.request.content) < InstagramCaptionLimit
       /\ calls[c].format.request.hashtags # <<>>
       /\ Len(UncutCaption(calls[c].format.request)) > InstagramCaptionLimit
       /\ Len(calls[c].format.text) = InstagramCaptionLimit
       /\ calls[c].format.text[InstagramCaptionLimit] = "."

\* ------------------------------------------------------------------ C22
\* C22: the text postToLinkedIn sends as the commentary of a post is never
\* longer than 3000 characters.
C22_LinkedInTextWithinLimit ==
    \A c \in CallIds :
       (calls[c].pc = "formatted" /\ calls[c].platform = "linkedin") =>
          Len(calls[c].format.text) <= LinkedInTextLimit

\* ------------------------------------------------------------------ C23
\* C23: after any sequence of LinkedIn and Meta OAuth callbacks the table
\* holds at most one row for a user, a platform and an account id of the
\* platform.
C23_OneRowPerNaturalKey ==
    \A a, b \in DOMAIN accounts :
       ( /\ accounts[a] # NoAccount /\ accounts[b] # NoAccount
         /\ accounts[a].userId = accounts[b].userId
         /\ accounts[a].platform = accounts[b].platform
         /\ accounts[a].accountId = accounts[b].accountId )
       => a = b

\* ------------------------------------------------------------------ C24
\* what the router does with the token of an account that has a refresh
\* token: one refresh, the new token sent when LinkedIn gave one, the stored
\* one when the refresh failed
PostContentRefreshesOnce ==
    \A t \in Triggers :
       (trig[t].kind = "postContent" /\ trig[t].sent /\ trig[t].hadRefreshToken)
       => /\ trig[t].refreshes = 1
          /\ trig[t].refreshed = "fails" => trig[t].token = trig[t].storedToken
          /\ trig[t].refreshed # "fails" => trig[t].token # trig[t].storedToken

\* C24: every LinkedIn publish for an account that has a refresh token comes
\* after exactly one refresh attempt, by the router and by publishPost alike;
\* the token sent is the new one after a refresh that succeeded and the
\* stored one after a refresh that failed.
C24_RefreshBeforeLinkedInPublish ==
    /\ PostContentRefreshesOnce
    /\ \A c \in CallIds :
          ( /\ calls[c].tries > 0 /\ calls[c].platform = "linkedin"
            /\ calls[c].account # 0
            /\ accounts[calls[c].account].refreshToken )
          => calls[c].refreshes = 1

\* ------------------------------------------------------------------ C25
\* the milliseconds a token has left at the time of the check
Remaining(check) ==
    check.issuedAt + check.expiresIn * MillisPerSecond - check.clock

\* C25: isTokenExpired answers true exactly for a token that has less than
\* five minutes left (one past its expiry among them) and false for one that
\* has five minutes or more.
C25_ExpiredWithinMargin ==
    \A c \in CallIds :
       calls[c].expiry.asked =>
          /\ Remaining(calls[c].expiry) > ExpiryMargin => ~calls[c].expiry.expired
          /\ Remaining(calls[c].expiry) < ExpiryMargin => calls[c].expiry.expired
          /\ Remaining(calls[c].expiry) < 0 => calls[c].expiry.expired
          /\ calls[c].expiry.expired <=> Remaining(calls[c].expiry) < ExpiryMargin

\* a token with five minutes left to the millisecond passes
C25_Witness ==
    \E c \in CallIds : /\ calls[c].expiry.asked
                        /\ Remaining(calls[c].expiry) = ExpiryMargin
                        /\ ~calls[c].expiry.expired

\* ------------------------------------------------------------------ C26
\* C26: the account publishPost goes to the adapter with is an account of
\* the draft's owner on the draft's platform, whether the agent selected it
\* or the fallback found it.
C26_ResolvedAccountIsTheOwners ==
    \A c \in CallIds :
       calls[c].pc = "dispatch" =>
          /\ accounts[calls[c].account].userId = drafts[PostIdOf(c)].userId
          /\ accounts[calls[c].account].platform = drafts[PostIdOf(c)].platform

\* ------------------------------------------------------------------ C27
\* C27: the drafts a user's schedulePost moves to scheduled are that user's:
\* with one user signed in and every draft unscheduled at first, no draft of
\* another user is ever scheduled, handed to publishPost by the sweep, or
\* published.
C27_OnlyOwnDraftsScheduled ==
    /\ \A p \in DraftIds :
          drafts[p].status \in {"scheduled", "published", "failed"}
             => drafts[p].userId = trig[1].userId
    /\ \A c \in CallIds : calls[c].pc # "none" => calls[c].userId = trig[1].userId
    /\ \A post \in platformPosts : drafts[post.postId].userId = trig[1].userId

\* ------------------------------------------------------------------ C28
\* C28: a post the daily job made for an agent carries the agent's id, and
\* where the agent selected an active account for the post's platform,
\* findSelectedAccount gives that account for the post.
C28_GeneratedPostHasItsAgent ==
    \A t \in Triggers : \A m \in trig[t].made :
       drafts[m.postId] # NoDraft =>
          /\ drafts[m.postId].agentId = m.agent
          /\ LET sel == agents[m.agent].selectedAccounts[m.platform]
             IN  (sel # 0 /\ accounts[sel].isActive)
                    => findSelectedAccount(accounts, agents, PostOf(drafts[m.postId])) = {sel}

\* ------------------------------------------------------------------ C29
\* the adapter calls of the sweeps that posted
AdapterSuccesses ==
    {x \in Triggers \X (1..(2 * (MaxRetryCount + 1))) :
        /\ x[2] \in DOMAIN trig[x[1]].outcomes
        /\ trig[x[1]].outcomes[x[2]] = "ok"}

\* C29: with one sweep after another and no publish from a router, a draft
\* is posted by an adapter at most once over all sweeps, a sweep selects it
\* only while it is scheduled, and posting_logs gets at most one success row
\* of a publishPost call for it.  (The table has one draft: the adapter calls
\* that posted are all for it.)
C29_PostedAtMostOnce ==
    /\ Cardinality(AdapterSuccesses) <= 1
    /\ \A c \in CallIds : InFlight(c) /\ calls[c].pc = "load"
                               => drafts[PostIdOf(c)].status = "scheduled"
    /\ \A p \in DraftIds :
          NumberOf({e \in SuccessLogsOfPost(p) : e.call # NoWriter}) <= 1

\* ------------------------------------------------------------------ C30
\* a sweep has returned: its loop ended, or its catch took an exception
SweepEnded(t) == trig[t].kind = "sweep" /\ trig[t].pc \in {"finished", "aborted"}

\* C30: every sweep that starts ends, and at its end every draft it found
\* due (and that still exists) is published or failed; no call makes more
\* than three adapter attempts.
C30_SweepEndsAllDue ==
    /\ \A t \in Triggers : (trig[t].kind = "sweep") ~> SweepEnded(t)
    /\ [](\A t \in Triggers :
            SweepEnded(t) =>
               \A d \in trig[t].due :
                  \/ drafts[d.id] = NoDraft
                  \/ drafts[d.id].status \in {"published", "failed"})
    /\ [](\A c \in CallIds : calls[c].tries <= MaxRetryCount + 1)
====
